---- MODULE Spec2Model ----
(***************************************************************************)
(* Weather chatbot: the websocket handler and its pipeline, in the two     *)
(* iterations of the repository.                                           *)
(*   variant "A" = src/main.py   (keyword gate, city extraction, synthesis)*)
(*   variant "B" = src/main1.py  (function calling, persistence sink)      *)
(* One handler coroutine runs per connection.  A handler gives up control  *)
(* only at an await; the language-model client is synchronous, so a model  *)
(* call is part of the step that makes it.  What the outside world answers *)
(* (the client's messages, the model's completions, the weather provider's *)
(* HTTP outcome, the persistence sink's outcome) is chosen by \E.          *)
(*                                                                         *)
(* Text is a sequence of one-character strings; a fixed phrase of the      *)
(* source is one element holding the phrase.                               *)
(***************************************************************************)
EXTENDS Naturals, Sequences, FiniteSets

\* ------------------------------------------------------------------ bounds

\* Messages a client sends on one connection before the model stops it.
MaxMsgs == 2

\* The connections that may be open at once.
Conns == {"c1", "c2"}

\* ------------------------------------------------------------------ text

UPPER == <<"A","B","C","D","E","F","G","H","I","J","K","L","M",
           "N","O","P","Q","R","S","T","U","V","W","X","Y","Z">>
LOWER == <<"a","b","c","d","e","f","g","h","i","j","k","l","m",
           "n","o","p","q","r","s","t","u","v","w","x","y","z">>

\* str.lower() on one character.
LowerChar(ch) ==
  IF \E i \in 1..Len(UPPER) : UPPER[i] = ch
    THEN LOWER[CHOOSE i \in 1..Len(UPPER) : UPPER[i] = ch]
    ELSE ch

\* str.lower()
Lower(s) == [i \in 1..Len(s) |-> LowerChar(s[i])]

IsSpace(ch) == ch \in {" ", "\n", "\t"}

\* str.strip(): drop the leading and the trailing whitespace.
Strip(s) ==
  LET keep == {i \in 1..Len(s) : ~IsSpace(s[i])}
  IN  IF keep = {} THEN <<>>
      ELSE LET lo == CHOOSE i \in keep : \A j \in keep : i <= j
               hi == CHOOSE i \in keep : \A j \in keep : j <= i
           IN  SubSeq(s, lo, hi)

\* Python's `word in text`: word is a contiguous part of text.
Contains(text, word) ==
  \E i \in 0..Len(text) :
     /\ i + Len(word) <= Len(text)
     /\ SubSeq(text, i + 1, i + Len(word)) = word

\* Optional[...]: None, or a value.
None == [some |-> FALSE]
Some(v) == [some |-> TRUE, val |-> v]

\* ------------------------------------------------------------ variant A text

\* The keyword list of the gate.
KEYWORDS ==
  { <<"w","e","a","t","h","e","r">>,
    <<"t","e","m","p","e","r","a","t","u","r","e">>,
    <<"r","a","i","n">>,
    <<"w","i","n","d">>,
    <<"h","u","m","i","d">>,
    <<"f","o","r","e","c","a","s","t">>,
    <<"c","l","i","m","a","t","e">>,
    <<"c","o","l","d">>,
    <<"h","o","t">>,
    <<"c","e","l","s","i","u","s">>,
    <<"f","a","h","r","e","n","h","e","i","t">> }

\* Faulty variant of IsWeatherQuery: the gate lets every message through.
IsWeatherQueryAlways(message) == Len(message) >= 0

\* any(word in message.lower() for word in [...])
IsWeatherQuery(message) == \E word \in KEYWORDS : Contains(Lower(message), word)

CLARIFICATION ==
  <<"I'm not sure which city you're asking about. Could you please specify a city name?">>

SYNTH_APOLOGY ==
  <<"I apologize, but I'm having trouble generating a response. Could you please try again?">>

\* f"I'm sorry, but I couldn't find weather data for {city}. Could you ..."
NotFoundReply(city) ==
  <<"I'm sorry, but I couldn't find weather data for ">> \o city
    \o <<". Could you please check the city name and try again?">>


\* ------------------------------------------------------------------ inputs

\* What a client may send.  "hi" holds no keyword; "Hot" holds one in another
\* letter case; "train" holds one inside a longer word.
Messages ==
  { <<"h","i">>, <<"H","o","t">>, <<"t","r","a","i","n">> }

\* What a chat-completion call may do: raise, or answer with text.
Raised == [raised |-> TRUE]
Answer(text) == [raised |-> FALSE, content |-> text, tool_calls |-> <<>>]

\* Answers of the extraction call of variant A.
ExtractCompletions ==
  { Raised,
    Answer(<<"N","o","n","e">>),
    Answer(<<" ","N","O","N","E","\n">>),
    Answer(<<" ">>),
    Answer(<<"R","o","m","e"," ">>) }

\* Answers of the synthesis call of variant A.
SynthCompletions ==
  { Raised, Answer(<<" ","It is sunny.","\n">>) }

\* A JSON object of the weather provider; {} is the empty object.
EmptyDict == [empty |-> TRUE]
Payload(city) ==
  [empty |-> FALSE, name |-> city, country |-> <<"Italy">>,
   temp_c |-> <<"21.0">>, temp_f |-> <<"69.8">>, condition |-> <<"Sunny">>,
   humidity |-> <<"40">>, wind_kph |-> <<"9.0">>,
   last_updated |-> <<"2024-01-01 12:00">>]

\* What the HTTP GET to the weather provider may do for a city: answer 200
\* with the city's data, answer 200 with an empty object, answer 200 with a
\* body that is no JSON, answer another status, or fail in transport.
\* `ok` is status_code == 200; `parses` is whether response.json() returns.
HttpCases == {"200", "200 {}", "200 not JSON", "404", "fault"}
HttpOutcome(city, case) ==
  IF case = "200"
    THEN [kind |-> "status", ok |-> TRUE, parses |-> TRUE, body |-> Payload(city)]
  ELSE IF case = "200 {}"
    THEN [kind |-> "status", ok |-> TRUE, parses |-> TRUE, body |-> EmptyDict]
  ELSE IF case = "200 not JSON"
    THEN [kind |-> "status", ok |-> TRUE, parses |-> FALSE, body |-> EmptyDict]
  ELSE IF case = "404"
    THEN [kind |-> "status", ok |-> FALSE, parses |-> TRUE, body |-> EmptyDict]
  ELSE [kind |-> "fault", ok |-> FALSE, parses |-> FALSE, body |-> EmptyDict]
HttpOutcomes(city, cases) == { HttpOutcome(city, case) : case \in cases }

\* Python truth of an Optional[str] / Optional[Dict].
TruthyText(opt) == opt.some /\ opt.val # <<>>
TruthyDict(opt) == opt.some /\ ~opt.val.empty

\* ------------------------------------------------- variant A: the functions

\* Faulty variant of main_get_weather_data: any answered request counts as data.
main_get_weather_data_any_status(http) ==
  IF http.kind = "status" THEN Some(Payload(<<"?">>)) ELSE None

\* get_weather_data of main.py: the JSON body on status 200, None on another
\* status; a transport fault and a raise of response.json() land in the
\* except clause, which returns None.
main_get_weather_data(http) ==
  IF http.kind = "fault" THEN None
  ELSE IF http.ok
         THEN IF http.parses THEN Some(http.body) ELSE None
         ELSE None

\* Faulty variant of extract_city_from_message: 'none' compared without lower().
extract_city_case_sensitive(completion) ==
  IF completion.raised THEN None
  ELSE LET city == Strip(completion.content)
       IN  IF city = <<"n","o","n","e">> THEN None ELSE Some(city)

\* extract_city_from_message: strip the answer; 'none' in any case is None.
extract_city_from_message(completion) ==
  IF completion.raised THEN None
  ELSE LET city == Strip(completion.content)
       IN  IF Lower(city) = <<"n","o","n","e">> THEN None ELSE Some(city)

\* The context block generate_weather_response hands to the model.
Context(message, weather_data) ==
  <<"User message: ">> \o message \o <<"\n">>
    \o (IF TruthyDict(weather_data)
          THEN LET w == weather_data.val
               IN  <<"\nCurrent weather data:\nCity: ">> \o w.name
                     \o <<"\nCountry: ">> \o w.country
                     \o <<"\nTemperature: ">> \o w.temp_c \o <<"C (">>
                     \o w.temp_f \o <<"F)\nCondition: ">> \o w.condition
                     \o <<"\nHumidity: ">> \o w.humidity
                     \o <<"%\nWind: ">> \o w.wind_kph
                     \o <<" km/h\nLast Updated: ">> \o w.last_updated
                     \o <<"\n">>
          ELSE <<>>)

\* generate_weather_response: the stripped answer, or the apology.
generate_weather_response(message, weather_data, completion) ==
  IF completion.raised THEN SYNTH_APOLOGY ELSE Strip(completion.content)


\* ------------------------------------------------------------------- state

VARIABLES
  variant,            \* "A": main.py is the server; "B": main1.py is
  pc,                 \* pc[c]: where connection c's handler is suspended
  session_id,         \* session_id[c]: uuid4 of the connection (variant B)
  message,            \* message[c]: the message being processed
  city,               \* city[c]: the city being fetched
  assistant_message,  \* assistant_message[c]: the first completion (variant B)
  next_call,          \* next_call[c]: position in assistant_message.tool_calls
  function_responses, \* function_responses[c]: the tool results so far
  response,           \* response[c]: the reply to send
  received,           \* received[c]: messages read by receive_text
  sent,               \* sent[c]: replies written by send_text
  trace,              \* trace[c]: what the handler did for the current message
  closed_by,          \* closed_by[c]: "", "disconnect" or "fault"
  db_messages,        \* rows written by store_message
  db_weather,         \* rows written by store_weather_data
  served_after_close  \* served_after_close[c]: c got a reply after a peer closed

vars ==
  << variant, pc, session_id, message, city, assistant_message,
     next_call, function_responses, response, received, sent, trace,
     closed_by, db_messages, db_weather, served_after_close >>

\* The locals of process_message, untouched by the handler's own steps.
locals == << city, assistant_message, next_call, function_responses >>

\* The persistence sink's tables.
db == << db_messages, db_weather >>

SessionIds == {"uuid-1", "uuid-2"}

NoMessage == <<>>
NoCompletion == Answer(<<>>)

Init ==
  /\ variant \in {"A", "B"}
  /\ pc = [c \in Conns |-> "new"]
  /\ session_id = [c \in Conns |-> ""]
  /\ message = [c \in Conns |-> NoMessage]
  /\ city = [c \in Conns |-> None]
  /\ assistant_message = [c \in Conns |-> NoCompletion]
  /\ next_call = [c \in Conns |-> 0]
  /\ function_responses = [c \in Conns |-> <<>>]
  /\ response = [c \in Conns |-> None]
  /\ received = [c \in Conns |-> 0]
  /\ sent = [c \in Conns |-> 0]
  /\ trace = [c \in Conns |-> <<>>]
  /\ closed_by = [c \in Conns |-> ""]
  /\ db_messages = {}
  /\ db_weather = {}
  /\ served_after_close = [c \in Conns |-> FALSE]

\* ------------------------------------------------------------------ events

EvReceive(m) == [ev |-> "receive_text", message |-> m]
EvExtract(m, completion, res) ==
  [ev |-> "extract_city_from_message", message |-> m,
   completion |-> completion, result |-> res]
EvHttp(cty, http) == [ev |-> "http_get", city |-> cty, http |-> http]
EvFetch(cty, res) == [ev |-> "get_weather_data", city |-> cty, result |-> res]
EvGenerate(ctx, res) == [ev |-> "generate_weather_response", context |-> ctx, result |-> res]
EvSend(text) == [ev |-> "send_text", text |-> text]

\* ----------------------------------------------- both variants: the channel

\* websocket.accept(), and in variant B session_id = str(uuid4()).
accept(c) ==
  /\ pc[c] = "new"
  /\ pc' = [pc EXCEPT ![c] = "receive_text"]
  /\ IF variant = "B"
       THEN \E id \in SessionIds \ {session_id[d] : d \in Conns} :
              session_id' = [session_id EXCEPT ![c] = id]
       ELSE UNCHANGED session_id
  /\ UNCHANGED << variant, message, locals, response, received, sent, trace,
                  closed_by, db, served_after_close >>

\* Faulty variant of CloseChannel: closing one channel closes them all.
CloseEveryChannel(c) == [d \in Conns |-> "closed"]

\* The handler of c leaves its loop: only c's channel ends.
CloseChannel(c) == [pc EXCEPT ![c] = "closed"]

\* except WebSocketDisconnect / except Exception: the loop ends; on a fault
\* the handler calls websocket.close().
Terminate(c, how) ==
  /\ pc' = CloseChannel(c)
  /\ closed_by' = [closed_by EXCEPT ![c] = how]

\* receive_text raises WebSocketDisconnect: the client has gone.
receive_disconnect(c) ==
  /\ pc[c] = "receive_text"
  /\ Terminate(c, "disconnect")
  /\ UNCHANGED << variant, session_id, message, locals, response, received,
                  sent, trace, db, served_after_close >>

\* receive_text raises another exception (a frame that is not text).
receive_fault(c) ==
  /\ pc[c] = "receive_text"
  /\ Terminate(c, "fault")
  /\ UNCHANGED << variant, session_id, message, locals, response, received,
                  sent, trace, db, served_after_close >>

\* await websocket.send_text(response): the reply goes out and the loop
\* returns to receive_text; or the client has gone and the send raises.
send_text(c) ==
  /\ pc[c] = "send_text"
  /\ \/ /\ sent' = [sent EXCEPT ![c] = @ + 1]
        /\ trace' = [trace EXCEPT ![c] = Append(@, EvSend(response[c].val))]
        /\ pc' = [pc EXCEPT ![c] = "receive_text"]
        /\ served_after_close' =
             [served_after_close EXCEPT
                ![c] = @ \/ \E d \in Conns \ {c} : pc[d] = "closed"]
        /\ UNCHANGED closed_by
     \/ /\ Terminate(c, "disconnect")
        /\ UNCHANGED << sent, trace, served_after_close >>
  /\ UNCHANGED << variant, session_id, message, locals, response, received, db >>

\* ---------------------------------------------- variant A: websocket_endpoint

\* One turn of the loop of main.py from receive_text to its next await:
\* the keyword gate, then either the synthesis without weather data, or the
\* city extraction and, with a city, the call of get_weather_data.
main_receive_text(c, w) ==
  /\ variant = "A"
  /\ pc[c] = "receive_text"
  /\ received[c] < MaxMsgs
  /\ \E m \in w.messages :
       /\ message' = [message EXCEPT ![c] = m]
       /\ received' = [received EXCEPT ![c] = @ + 1]
       /\ IF ~IsWeatherQuery(m)
            THEN \E completion \in w.synth :
                   LET r == generate_weather_response(m, None, completion)
                   IN  /\ response' = [response EXCEPT ![c] = Some(r)]
                       /\ trace' = [trace EXCEPT ![c] =
                            << EvReceive(m), EvGenerate(Context(m, None), r) >>]
                       /\ pc' = [pc EXCEPT ![c] = "send_text"]
                       /\ UNCHANGED city
            ELSE \E completion \in w.extract :
                   LET found == extract_city_from_message(completion)
                   IN  IF ~TruthyText(found)
                         THEN /\ response' = [response EXCEPT ![c] = Some(CLARIFICATION)]
                              /\ trace' = [trace EXCEPT ![c] =
                                   << EvReceive(m), EvExtract(m, completion, found) >>]
                              /\ pc' = [pc EXCEPT ![c] = "send_text"]
                              /\ UNCHANGED city
                         ELSE /\ city' = [city EXCEPT ![c] = found]
                              /\ trace' = [trace EXCEPT ![c] =
                                   << EvReceive(m), EvExtract(m, completion, found) >>]
                              /\ pc' = [pc EXCEPT ![c] = "get_weather_data"]
                              /\ UNCHANGED response
  /\ UNCHANGED << variant, session_id, assistant_message,
                  next_call, function_responses, sent, closed_by, db,
                  served_after_close >>

\* The rest of the turn: get_weather_data returns; with data the synthesis
\* runs on it, without data the reply is the could-not-find template.
main_weather_reply(c, w) ==
  /\ variant = "A"
  /\ pc[c] = "get_weather_data"
  /\ \E http \in HttpOutcomes(city[c].val, w.http) :
       LET data == main_get_weather_data(http)
       IN  IF TruthyDict(data)
             THEN \E completion \in w.synth :
                    LET r == generate_weather_response(message[c], data, completion)
                    IN  /\ response' = [response EXCEPT ![c] = Some(r)]
                        /\ trace' = [trace EXCEPT ![c] = @ \o
                             << EvHttp(city[c].val, http),
                                EvFetch(city[c].val, data),
                                EvGenerate(Context(message[c], data), r) >>]
             ELSE /\ response' = [response EXCEPT ![c] = Some(NotFoundReply(city[c].val))]
                  /\ trace' = [trace EXCEPT ![c] = @ \o
                       << EvHttp(city[c].val, http), EvFetch(city[c].val, data) >>]
  /\ pc' = [pc EXCEPT ![c] = "send_text"]
  /\ UNCHANGED << variant, session_id, message, locals, received, sent,
                  closed_by, db, served_after_close >>


\* ------------------------------------------------- variant B: the functions

SYSTEM_PROMPT == <<"You are a friendly and helpful weather assistant. ...">>

PROCESS_APOLOGY ==
  <<"I apologize, but I'm having trouble processing your request. Could you please try again?">>

\* tool_call.function.arguments: a JSON text, well formed or not.
Arguments(cty) == [wellformed |-> TRUE, city |-> cty]
Malformed == [wellformed |-> FALSE]

ToolCall(id, name, arguments) == [id |-> id, name |-> name, arguments |-> arguments]

Rome == <<"R","o","m","e">>
Oslo == <<"O","s","l","o">>

\* The tool_calls lists the first completion may carry.
ToolCallLists ==
  { << ToolCall("call_1", "get_current_weather", Arguments(Rome)) >>,
    << ToolCall("call_1", "get_current_weather", Arguments(Rome)),
       ToolCall("call_2", "get_current_weather", Arguments(Oslo)) >>,
    << ToolCall("call_1", "get_current_weather", Malformed) >>,
    << ToolCall("call_1", "get_current_weather", Arguments(Rome)),
       ToolCall("call_2", "get_current_weather", Malformed) >>,
    << ToolCall("call_1", "get_forecast", Malformed),
       ToolCall("call_2", "get_current_weather", Arguments(Rome)) >> }

\* A completion that asks for tools carries no text.
AskTools(calls) == [raised |-> FALSE, content |-> <<>>, tool_calls |-> calls]

\* What the first chat-completion call (tools declared) may do.
FirstCompletions ==
  { Raised, Answer(<<"Hello! Ask me about the weather.">>) }
    \cup { AskTools(calls) : calls \in ToolCallLists }

\* What the second chat-completion call may do.
SecondCompletions ==
  { Raised, Answer(<<"It is sunny in Rome.">>) }

\* What a call of the persistence sink may do.
StoreOutcomes == {"stored", "raised"}

\* json.dumps(value)
JsonDumps(value) == [json |-> value]

\* The body get_weather_data of main1.py hands to store_weather_data: the
\* parsed JSON of an answer with status 200; nothing otherwise.
Forwarded(http) ==
  IF http.kind = "status" /\ http.ok /\ http.parses THEN Some(http.body) ELSE None

\* get_weather_data of main1.py: on status 200 the body goes to
\* store_weather_data and is returned; a raise of response.json() or of the
\* sink lands in the except clause like a transport fault, and the function
\* returns None.
main1_get_weather_data(http, stored) ==
  IF http.kind = "fault" THEN None
  ELSE IF http.ok
         THEN IF http.parses /\ stored = "stored" THEN Some(http.body) ELSE None
         ELSE None

\* The entry process_message appends to function_responses for one call.
ToolOutput(tool_call, cty, data) ==
  [ tool_call_id |-> tool_call.id,
    output |-> IF TruthyDict(data)
                 THEN JsonDumps(data.val)
                 ELSE JsonDumps([error |-> <<"Could not fetch weather data for ">> \o cty]) ]

ToolEntry(resp) ==
  [role |-> "tool", tool_call_id |-> resp.tool_call_id, content |-> resp.output]

FirstMessages(m) ==
  << [role |-> "system", content |-> SYSTEM_PROMPT],
     [role |-> "user", content |-> m] >>

\* Faulty variant of SecondMessages: the tool entries in reverse order.
SecondMessagesReversed(m, assistant, responses) ==
  FirstMessages(m) \o << [role |-> "assistant", message |-> assistant] >>
    \o [k \in 1..Len(responses) |-> ToolEntry(responses[Len(responses) + 1 - k])]

\* The message list of the second completion: system, user, the model's
\* tool-call message, then one tool entry per function response.
SecondMessages(m, assistant, responses) ==
  FirstMessages(m) \o << [role |-> "assistant", message |-> assistant] >>
    \o [k \in 1..Len(responses) |-> ToolEntry(responses[k])]

\* Faulty variant of FinalContent: the first completion's text is returned.
FinalContentOfFirst(assistant, final) == assistant.content

\* return final_response.choices[0].message.content
FinalContent(assistant, final) == final.content

EvStoreMessage(sid, role, content, outcome) ==
  [ev |-> "store_message", session_id |-> sid, role |-> role,
   content |-> content, outcome |-> outcome]
EvCompletion(messages, completion) ==
  [ev |-> "chat_completion", messages |-> messages, completion |-> completion]
EvParseFault(tool_call) == [ev |-> "json_loads_raised", tool_call |-> tool_call]
EvStoreWeather(cty, payload, outcome) ==
  [ev |-> "store_weather_data", city |-> cty, payload |-> payload, outcome |-> outcome]
EvToolFetch(tool_call, cty, http, res) ==
  [ev |-> "get_weather_data", tool_call_id |-> tool_call.id, city |-> cty,
   http |-> http, result |-> res]
EvReturn(text) == [ev |-> "process_message_returned", text |-> text]


\* ---------------------------------------------- variant B: websocket_endpoint

\* message = await websocket.receive_text()
main1_receive_text(c, w) ==
  /\ variant = "B"
  /\ pc[c] = "receive_text"
  /\ received[c] < MaxMsgs
  /\ \E m \in w.messages :
       /\ message' = [message EXCEPT ![c] = m]
       /\ trace' = [trace EXCEPT ![c] = << EvReceive(m) >>]
  /\ received' = [received EXCEPT ![c] = @ + 1]
  /\ pc' = [pc EXCEPT ![c] = "store_user"]
  /\ UNCHANGED << variant, session_id, locals, response, sent, closed_by, db,
                  served_after_close >>

\* Faulty variant of SessionOf: every connection writes under one shared id.
SessionShared(c) == "uuid-1"

\* The session id the handler of c passes to the sink.
SessionOf(c) == session_id[c]

\* await db.store_message(session_id, role, content): the row is written, or
\* the sink raises and the exception leaves the loop (except Exception).
StoreMessage(c, w, role, content, then) ==
  \E outcome \in w.store :
    /\ trace' = [trace EXCEPT ![c] =
         Append(@, EvStoreMessage(SessionOf(c), role, content, outcome))]
    /\ IF outcome = "stored"
         THEN /\ db_messages' = db_messages \cup
                   { [session_id |-> SessionOf(c), role |-> role, content |-> content] }
              /\ pc' = [pc EXCEPT ![c] = then]
              /\ UNCHANGED closed_by
         ELSE /\ Terminate(c, "fault")
              /\ UNCHANGED db_messages

\* await db.store_message(session_id, "user", message)
store_user_message(c, w) ==
  /\ variant = "B"
  /\ pc[c] = "store_user"
  /\ StoreMessage(c, w, "user", message[c], "process_message")
  /\ UNCHANGED << variant, session_id, message, locals, response, received,
                  sent, db_weather, served_after_close >>

\* process_message returns `text` after doing `events`; its locals die.
Return(c, events, text) ==
  /\ trace' = [trace EXCEPT ![c] = @ \o events \o << EvReturn(text) >>]
  /\ response' = [response EXCEPT ![c] = Some(text)]
  /\ pc' = [pc EXCEPT ![c] = "store_assistant"]
  /\ assistant_message' = [assistant_message EXCEPT ![c] = NoCompletion]
  /\ next_call' = [next_call EXCEPT ![c] = 0]
  /\ function_responses' = [function_responses EXCEPT ![c] = <<>>]
  /\ UNCHANGED closed_by

\* Faulty variant of OnFault: process_message has no except clause, the exception
\* reaches the handler's and ends the connection.
OnFaultPropagates(c, events) ==
  /\ trace' = [trace EXCEPT ![c] = @ \o events]
  /\ Terminate(c, "fault")
  /\ UNCHANGED << response, assistant_message, next_call, function_responses >>

\* except Exception in process_message: whatever was raised inside the try
\* (a completion call, json.loads) is logged and the apology is returned.
OnFault(c, events) == Return(c, events, PROCESS_APOLOGY)

\* process_message up to its first tool call: the first completion; a raise
\* gives the apology, an answer without tool calls is returned as it is.
first_completion(c, w) ==
  /\ variant = "B"
  /\ pc[c] = "process_message"
  /\ \E completion \in w.first :
       LET call == EvCompletion(FirstMessages(message[c]), completion)
       IN  IF completion.raised
             THEN OnFault(c, << call >>)
             ELSE IF completion.tool_calls = <<>>
               THEN Return(c, << call >>, completion.content)
               ELSE /\ trace' = [trace EXCEPT ![c] = Append(@, call)]
                    /\ assistant_message' = [assistant_message EXCEPT ![c] = completion]
                    /\ next_call' = [next_call EXCEPT ![c] = 1]
                    /\ function_responses' = [function_responses EXCEPT ![c] = <<>>]
                    /\ pc' = [pc EXCEPT ![c] = "tool_calls"]
                    /\ UNCHANGED << response, closed_by >>
  /\ UNCHANGED << variant, session_id, message, city, received, sent,
                  db, served_after_close >>

\* One pass of `for tool_call in assistant_message.tool_calls`: a call of
\* another name is skipped; json.loads of malformed arguments raises into the
\* except clause of process_message; otherwise get_weather_data runs (the
\* HTTP GET, and on status 200 store_weather_data) and its result becomes a
\* function response.
process_tool_call(c, w) ==
  /\ variant = "B"
  /\ pc[c] = "tool_calls"
  /\ next_call[c] <= Len(assistant_message[c].tool_calls)
  /\ LET tool_call == assistant_message[c].tool_calls[next_call[c]]
     IN  IF tool_call.name # "get_current_weather"
           THEN /\ next_call' = [next_call EXCEPT ![c] = @ + 1]
                /\ UNCHANGED << trace, function_responses, response, pc,
                                assistant_message, db_weather, closed_by >>
           ELSE IF ~tool_call.arguments.wellformed
             THEN /\ OnFault(c, << EvParseFault(tool_call) >>)
                  /\ UNCHANGED db_weather
             ELSE \E http \in HttpOutcomes(tool_call.arguments.city, w.http),
                     stored \in w.store :
                    LET cty == tool_call.arguments.city
                        data == main1_get_weather_data(http, stored)
                        forwarded == Forwarded(http)
                    IN  /\ trace' = [trace EXCEPT ![c] = @
                              \o << EvHttp(cty, http) >>
                              \o (IF forwarded.some
                                    THEN << EvStoreWeather(cty, forwarded.val, stored) >>
                                    ELSE <<>>)
                              \o << EvToolFetch(tool_call, cty, http, data) >>]
                        /\ db_weather' =
                             IF forwarded.some /\ stored = "stored"
                               THEN db_weather \cup {[city |-> cty, data |-> forwarded.val]}
                               ELSE db_weather
                        /\ function_responses' = [function_responses EXCEPT ![c] =
                             Append(@, ToolOutput(tool_call, cty, data))]
                        /\ next_call' = [next_call EXCEPT ![c] = @ + 1]
                        /\ UNCHANGED << response, pc, assistant_message, closed_by >>
  /\ UNCHANGED << variant, session_id, message, city, received, sent,
                  db_messages, served_after_close >>

\* After the loop: the second completion over the full exchange; its text is
\* returned, or the apology when the call raises.
second_completion(c, w) ==
  /\ variant = "B"
  /\ pc[c] = "tool_calls"
  /\ next_call[c] > Len(assistant_message[c].tool_calls)
  /\ \E final \in w.second :
       LET call == EvCompletion(
                     SecondMessages(message[c], assistant_message[c],
                                    function_responses[c]), final)
       IN  IF final.raised
             THEN OnFault(c, << call >>)
             ELSE Return(c, << call >>, FinalContent(assistant_message[c], final))
  /\ UNCHANGED << variant, session_id, message, city, received, sent,
                  db, served_after_close >>

\* await db.store_message(session_id, "assistant", response)
store_assistant_message(c, w) ==
  /\ variant = "B"
  /\ pc[c] = "store_assistant"
  /\ StoreMessage(c, w, "assistant", response[c].val, "send_text")
  /\ UNCHANGED << variant, session_id, message, locals, response, received,
                  sent, db_weather, served_after_close >>

\* ------------------------------------------------------------ specification

\* Everything the outside world may answer.
World ==
  [ messages |-> Messages, extract |-> ExtractCompletions,
    synth |-> SynthCompletions, http |-> HttpCases,
    first |-> FirstCompletions, second |-> SecondCompletions,
    store |-> StoreOutcomes ]

\* A narrower world for the runs with several connections: a message
\* without a keyword and one with, a city found, the provider answering, one tool call, and the
\* sink storing or raising.
SmallWorld ==
  [ messages |-> { <<"h","i">>, <<"H","o","t">> },
    extract |-> { Answer(<<"R","o","m","e"," ">>) },
    synth |-> { Answer(<<" ","It is sunny.","\n">>) },
    http |-> {"200"},
    first |-> { AskTools(<< ToolCall("call_1", "get_current_weather", Arguments(Rome)) >>) },
    second |-> { Answer(<<"It is sunny in Rome.">>) },
    store |-> StoreOutcomes ]

\* One step of the handler of connection c in world w.
Step(c, w) ==
  \/ accept(c)
  \/ receive_disconnect(c)
  \/ receive_fault(c)
  \/ send_text(c)
  \/ main_receive_text(c, w)
  \/ main_weather_reply(c, w)
  \/ main1_receive_text(c, w)
  \/ store_user_message(c, w)
  \/ first_completion(c, w)
  \/ process_tool_call(c, w)
  \/ second_completion(c, w)
  \/ store_assistant_message(c, w)

\* One client, the whole world.
Next == Step("c1", World)

Spec == Init /\ [][Next]_vars

\* One client, the whole world except that the persistence sink never raises.
NextReliableSink == Step("c1", [World EXCEPT !.store = {"stored"}])

SpecReliableSink == Init /\ [][NextReliableSink]_vars

\* Several clients at once, the narrower world.
NextMany == \E c \in Conns : Step(c, SmallWorld)

SpecMany == Init /\ [][NextMany]_vars


\* ------------------------------------------------------------------ claims

\* The handler of c has sent the reply to its current message.
Completed(c) ==
  /\ trace[c] # <<>>
  /\ trace[c][Len(trace[c])].ev = "send_text"

\* The positions of the events named ev in the trace of c.
At(c, ev) == { i \in DOMAIN trace[c] : trace[c][i].ev = ev }

\* The reply sent for the current message of c (when Completed).
Reply(c) == trace[c][Len(trace[c])].text

\* C1: in both variants every message received on a connection gets exactly
\* one reply, also when a pipeline stage or a persistence call fails: a
\* handler back at receive_text, or ended by anything but the client's
\* leaving, has sent as many replies as it has read messages, and it is
\* never more than one reply behind or ahead.
C1_ExactlyOneReplyPerMessage ==
  \A c \in Conns :
    closed_by[c] # "disconnect" =>
      /\ sent[c] <= received[c]
      /\ received[c] <= sent[c] + 1
      /\ pc[c] \in {"new", "receive_text", "closed"} => sent[c] = received[c]

\* The text holds none of the gate's keywords in any letter case.
NoKeyword(m) == \A word \in KEYWORDS : ~Contains(Lower(m), word)

\* C2: variant A, a message without any keyword: the reply is the output of
\* generate_weather_response called without weather data, and neither
\* extract_city_from_message nor get_weather_data runs for it.
C2_GeneralReplyIsSynthesis ==
  \A c \in Conns :
    (variant = "A" /\ trace[c] # <<>> /\ NoKeyword(trace[c][1].message)) =>
      /\ At(c, "extract_city_from_message") = {}
      /\ At(c, "get_weather_data") = {}
      /\ At(c, "http_get") = {}
      /\ At(c, "generate_weather_response") = {2}
      /\ trace[c][2].context =
           <<"User message: ">> \o trace[c][1].message \o <<"\n">>
      /\ Completed(c) => /\ Len(trace[c]) = 3
                         /\ Reply(c) = trace[c][2].result

C2_Witness ==
  /\ variant = "A"
  /\ Completed("c1")
  /\ trace["c1"][1].message = <<"h","i">>
  /\ Reply("c1") = <<"It is sunny.">>

\* The extraction call answered 'none' in some letter case, answered empty
\* text, or raised.
AnsweredAbsence(completion) ==
  \/ completion.raised
  \/ Lower(Strip(completion.content)) = <<"n","o","n","e">>
  \/ Strip(completion.content) = <<>>

\* C3: variant A, a keyword message for which the city extraction gives
\* absence: the reply is the fixed clarification string and get_weather_data
\* is never called for it.
C3_AbsentCityAsksForCity ==
  \A c \in Conns :
    \A i \in At(c, "extract_city_from_message") :
      (variant = "A" /\ AnsweredAbsence(trace[c][i].completion)) =>
        /\ At(c, "get_weather_data") = {}
        /\ At(c, "http_get") = {}
        /\ At(c, "generate_weather_response") = {}
        /\ pc[c] # "get_weather_data"
        /\ Completed(c) => Reply(c) = CLARIFICATION

C3_Witness ==
  /\ variant = "A"
  /\ Completed("c1")
  /\ \E i \in At("c1", "extract_city_from_message") :
       /\ ~trace["c1"][i].completion.raised
       /\ trace["c1"][i].completion.content = <<" ","N","O","N","E","\n">>
  /\ Reply("c1") = CLARIFICATION

\* C4: variant A, the weather provider answers another status than 200 or
\* the request fails in transport: the reply is the could-not-find template
\* around the extracted city, letter for letter, and
\* generate_weather_response does not run for that message.
C4_FetchFailureNamesCity ==
  \A c \in Conns :
    \A i \in At(c, "http_get") :
      (variant = "A" /\ ~(trace[c][i].http.kind = "status" /\ trace[c][i].http.ok)) =>
        LET extracted == Strip(trace[c][2].completion.content)
        IN  /\ trace[c][2].ev = "extract_city_from_message"
            /\ trace[c][i].city = extracted
            /\ At(c, "generate_weather_response") = {}
            /\ Completed(c) =>
                 /\ Reply(c) =
                      <<"I'm sorry, but I couldn't find weather data for ">>
                        \o extracted
                        \o <<". Could you please check the city name and try again?">>
                 /\ Contains(Reply(c), extracted)

C4_Witness ==
  /\ variant = "A"
  /\ Completed("c1")
  /\ \E i \in At("c1", "http_get") :
       trace["c1"][i].http.kind = "status" /\ ~trace["c1"][i].http.ok
  /\ Contains(Reply("c1"), <<"R","o","m","e">>)


\* ------------------------------------------------------- claims, variant B

\* In variant B the trace of a message starts receive_text, store_message,
\* and the first completion is its third event.
HasFirstCompletion(c) ==
  /\ variant = "B"
  /\ Len(trace[c]) >= 3
  /\ trace[c][3].ev = "chat_completion"

\* The first completion of c's message asks for the weather of some city.
RequestsWeather(c) ==
  /\ HasFirstCompletion(c)
  /\ ~trace[c][3].completion.raised
  /\ \E k \in DOMAIN trace[c][3].completion.tool_calls :
       LET t == trace[c][3].completion.tool_calls[k]
       IN  t.name = "get_current_weather" /\ t.arguments.wellformed

\* The positions of the second completion call in the trace of c.
SecondCalls(c) == { j \in At(c, "chat_completion") : j > 3 }

\* What process_message returned for c's message.
Returned(c) ==
  trace[c][CHOOSE i \in At(c, "process_message_returned") : TRUE].text

\* The message list of the call at j holds, for every weather fetch of the
\* message, the tool entry of that call: the JSON of the snapshot when
\* get_weather_data returned a non-empty one, else the error object naming
\* the city.
ToolResultsIn(c, j) ==
  \A i \in At(c, "get_weather_data") :
    /\ i < j
    /\ \E k \in DOMAIN trace[c][j].messages :
         LET entry == trace[c][j].messages[k]
             e == trace[c][i]
         IN  /\ entry.role = "tool"
             /\ entry.tool_call_id = e.tool_call_id
             /\ IF e.result.some /\ ~e.result.val.empty
                  THEN entry.content = [json |-> e.result.val]
                  ELSE entry.content =
                         [json |-> [error |-> <<"Could not fetch weather data for ">>
                                                \o e.city]]

\* C5 as stated: whenever the first completion asks for the weather tool for
\* a city, what process_message returns is the text of a second completion
\* made after the fetch, whose message list holds the tool result.
C5_ReplyIsSecondCompletion ==
  \A c \in Conns :
    (RequestsWeather(c) /\ At(c, "process_message_returned") # {}) =>
      \E j \in SecondCalls(c) :
        /\ ~trace[c][j].completion.raised
        /\ Returned(c) = trace[c][j].completion.content
        /\ ToolResultsIn(c, j)

\* C5, amended: whenever the first completion asks for the weather tool for
\* a city X, every second completion comes after the fetches and its message
\* list holds each tool result (the snapshot's JSON when get_weather_data
\* returned a non-empty snapshot, else an error object naming X); and what
\* process_message returns is the text of that second completion, or the
\* fixed apology when the second completion raised or a later tool call's
\* arguments did not parse.
C5_ReplyIsSecondCompletionOrApology ==
  \A c \in Conns :
    RequestsWeather(c) =>
      /\ \A j \in SecondCalls(c) : ToolResultsIn(c, j)
      /\ At(c, "process_message_returned") # {} =>
           \/ \E j \in SecondCalls(c) :
                /\ ~trace[c][j].completion.raised
                /\ Returned(c) = trace[c][j].completion.content
           \/ /\ Returned(c) = PROCESS_APOLOGY
              /\ \/ \E j \in SecondCalls(c) : trace[c][j].completion.raised
                 \/ At(c, "json_loads_raised") # {}

\* Two tool calls, Rome fetched and Oslo failed, and the second completion's
\* text sent as the reply.
C5_Witness ==
  /\ Completed("c1")
  /\ RequestsWeather("c1")
  /\ \E i, k \in At("c1", "get_weather_data") :
       /\ trace["c1"][i].city = Rome /\ trace["c1"][i].result.some
       /\ ~trace["c1"][i].result.val.empty
       /\ trace["c1"][k].city = Oslo /\ ~trace["c1"][k].result.some
  /\ Reply("c1") = <<"It is sunny in Rome.">>

\* C6 as stated: malformed tool-call arguments end the request with a fault,
\* and process_message produces no reply string for the message.
C6_ParseFaultIsFatal ==
  \A c \in Conns :
    At(c, "json_loads_raised") # {} =>
      /\ At(c, "process_message_returned") = {}
      /\ At(c, "send_text") = {}

\* C6, amended: json.loads raising on the arguments of a get_current_weather
\* call is caught by the except clause of process_message: process_message
\* returns the fixed apology at once, no second completion is made, the
\* connection stays open on that account, and the apology is the reply sent.
C6_ParseFaultGivesApology ==
  \A c \in Conns :
    \A i \in At(c, "json_loads_raised") :
      /\ Len(trace[c]) > i
      /\ trace[c][i + 1] = [ev |-> "process_message_returned", text |-> PROCESS_APOLOGY]
      /\ SecondCalls(c) = {}
      /\ Len(trace[c]) = i + 1 => pc[c] = "store_assistant"
      /\ Completed(c) => Reply(c) = PROCESS_APOLOGY

\* A call with malformed arguments after a call that was served.
C6_Witness ==
  /\ Completed("c1")
  /\ At("c1", "json_loads_raised") # {}
  /\ At("c1", "get_weather_data") # {}
  /\ Reply("c1") = PROCESS_APOLOGY

\* C7: variant B, whenever the provider answers 200, get_weather_data hands
\* the body to store_weather_data before it returns and returns that body;
\* it returns None only on another status or a transport fault.  (Checked
\* with a sink that never raises: the 200 answer whose body is no JSON is
\* enough to refute it; under Spec a raise of store_weather_data does too.)
C7_SuccessIsStoredAndReturned ==
  \A c \in Conns :
    \A i \in At(c, "get_weather_data") :
      variant = "B" =>
        LET e == trace[c][i]
            got200 == e.http.kind = "status" /\ e.http.ok
        IN  /\ got200 =>
                 /\ trace[c][i - 1].ev = "store_weather_data"
                 /\ trace[c][i - 1].payload = e.http.body
                 /\ e.result.some
                 /\ e.result.val = e.http.body
            /\ ~e.result.some => ~got200

\* The tool calls of the first completion that name get_current_weather.
WeatherCalls(c) ==
  SelectSeq(trace[c][3].completion.tool_calls,
            LAMBDA t : t.name = "get_current_weather")

\* C9 as stated: the message list of the second completion holds, after the
\* system instruction, the user message and the model's tool-call message,
\* one tool entry per tool call of the first completion, in order, each with
\* its call's id.
C9_OneToolEntryPerRequest ==
  \A c \in Conns :
    \A j \in SecondCalls(c) :
      LET msgs == trace[c][j].messages
          calls == trace[c][3].completion.tool_calls
      IN  /\ Len(msgs) = 3 + Len(calls)
          /\ msgs[1] = [role |-> "system", content |-> SYSTEM_PROMPT]
          /\ msgs[2] = [role |-> "user", content |-> trace[c][1].message]
          /\ msgs[3] = [role |-> "assistant", message |-> trace[c][3].completion]
          /\ \A k \in 1..Len(calls) :
               /\ 3 + k <= Len(msgs)
               /\ msgs[3 + k].role = "tool"
               /\ msgs[3 + k].tool_call_id = calls[k].id

\* C9, amended: ... one tool entry per tool call of the first completion
\* that names get_current_weather, in order, each with its call's id; a call
\* of another name gets no entry.
C9_OneToolEntryPerWeatherRequest ==
  \A c \in Conns :
    \A j \in SecondCalls(c) :
      LET msgs == trace[c][j].messages
          calls == WeatherCalls(c)
      IN  /\ Len(msgs) = 3 + Len(calls)
          /\ msgs[1] = [role |-> "system", content |-> SYSTEM_PROMPT]
          /\ msgs[2] = [role |-> "user", content |-> trace[c][1].message]
          /\ msgs[3] = [role |-> "assistant", message |-> trace[c][3].completion]
          /\ \A k \in 1..Len(calls) :
               /\ msgs[3 + k].role = "tool"
               /\ msgs[3 + k].tool_call_id = calls[k].id

\* A second completion over two tool entries.
C9_Witness ==
  /\ Completed("c1")
  /\ \E j \in SecondCalls("c1") :
       /\ Len(trace["c1"][j].messages) = 5
       /\ trace["c1"][j].messages[4].tool_call_id = "call_1"
       /\ trace["c1"][j].messages[5].tool_call_id = "call_2"

\* The events process_message itself leaves in the trace.
ProcessEvents ==
  { "chat_completion", "http_get", "store_weather_data", "get_weather_data",
    "json_loads_raised" }

\* C10: variant B, per message the handler stores the user message, runs
\* process_message, stores the reply and sends it, in that order and always
\* under the connection's own session_id; and it reads the next message only
\* after it has sent the reply to the one before.
C10_HandlerOrder ==
  \A c \in Conns :
    variant = "B" =>
      LET t == trace[c]
          n == Len(t)
          rets == At(c, "process_message_returned")
      IN  /\ sent[c] <= received[c]
          /\ received[c] <= sent[c] + 1
          /\ pc[c] = "receive_text" => sent[c] = received[c]
          /\ received[c] = sent[c] + 1 => ~Completed(c)
          /\ n >= 1 => t[1].ev = "receive_text"
          /\ n >= 2 =>
               /\ t[2] = [ev |-> "store_message", session_id |-> session_id[c],
                          role |-> "user", content |-> t[1].message,
                          outcome |-> t[2].outcome]
               /\ t[2].outcome = "raised" => n = 2
          /\ \A i \in 3..n :
               (\A r \in rets : i < r) => t[i].ev \in ProcessEvents
          /\ \A r \in rets :
               /\ r >= 4
               /\ n <= r + 2
               /\ n >= r + 1 =>
                    /\ t[r + 1] = [ev |-> "store_message", session_id |-> session_id[c],
                                   role |-> "assistant", content |-> t[r].text,
                                   outcome |-> t[r + 1].outcome]
                    /\ t[r + 1].outcome = "raised" => n = r + 1
               /\ n = r + 2 => t[r + 2] = [ev |-> "send_text", text |-> t[r].text]
          /\ Completed(c) => rets # {}

\* The second message of a connection answered after the first.
C10_Witness ==
  /\ variant = "B"
  /\ session_id["c1"] = "uuid-2"
  /\ received["c1"] = 2
  /\ sent["c1"] = 2
  /\ Completed("c1")


\* ------------------------------------------------- claims, many connections

\* What the handler of c and its client can observe of the connection.
View(c) ==
  << pc[c], session_id[c], message[c], response[c], received[c], sent[c],
     trace[c], closed_by[c] >>

\* C8: with several connections open, a client's leaving or an unhandled
\* fault in one handler ends that connection only.  The step that ends c
\* marks it as left by the client or force-closed after a fault, and changes
\* nothing of any other connection; an ended connection sends and reads
\* nothing more; and every connection, whatever happened to the others, is
\* never more than the one reply behind that it is working on, and has
\* answered every message when it waits in receive_text.
C8_TerminationIsLocal ==
  /\ [][ \A c \in Conns :
           /\ pc[c] = "closed" => View(c)' = View(c)
           /\ (pc[c] # "closed" /\ pc'[c] = "closed") =>
                /\ closed_by'[c] \in {"disconnect", "fault"}
                /\ sent'[c] = sent[c]
                /\ \A d \in Conns \ {c} : View(d)' = View(d) ]_vars
  /\ [](\A d \in Conns :
          /\ sent[d] <= received[d]
          /\ received[d] <= sent[d] + 1
          /\ pc[d] = "receive_text" => sent[d] = received[d]
          /\ (pc[d] = "closed") = (closed_by[d] # ""))

\* c1 was force-closed after a fault in the middle of a message, and c2,
\* still open, got replies after that.
C8_Witness ==
  /\ pc["c1"] = "closed"
  /\ closed_by["c1"] = "fault"
  /\ received["c1"] = sent["c1"] + 1
  /\ served_after_close["c2"]
  /\ pc["c2"] = "receive_text"
  /\ sent["c2"] = MaxMsgs

====
